---- MODULE Spec2Model ----
(***************************************************************************)
(* Model of custom_components/vedur: the refresh pipeline of               *)
(* VedurDataUpdateCoordinator (coordinator.py), the CAP alert parser and   *)
(* highest_severity (const.py).                                            *)
(*                                                                         *)
(* Conventions.  A Python optional value is a sequence of length <= 1:     *)
(* <<>> is None, <<v>> is the value v.  A Python str whose characters      *)
(* matter (language codes, severity text) is a sequence of one-character   *)
(* strings.  An XML document is a record of the fields the code reads.     *)
(***************************************************************************)
EXTENDS Integers, Sequences, FiniteSets, TLC

VARIABLES
    alert_language,  \* coordinator.alert_language
    self_data,       \* coordinator.data: None before the first success, else Some(snapshot)
    env,             \* what the alert servers may do in this run (see RefreshEnv)
    pc,              \* position of _async_update_data
    clock,           \* seconds elapsed since the current asyncio.timeout(20) was entered
    fcTask,          \* the _fetch_xml(forecast_url) awaitable of the gather
    obsTask,         \* the _fetch_xml(observation_url) awaitable of the gather
    data,            \* the local `data` of _async_update_data: None or Some(snapshot)
    idxReq,          \* the session.get(ALERTS_URL) of _fetch_alerts
    links,           \* the local `links` of _fetch_alerts
    tasks,           \* the _fetch_cap_alert awaitables of the gather, in links[:10] order
    detailReqs,      \* URLs for which _fetch_cap_alert called session.get, in order of issue
    detailStart,     \* value of clock when the detail fetches were started
    outOfOrder,      \* history: some detail fetch settled before one of a lower index
    returned,        \* what _async_update_data gave its caller
    requests,        \* history: the endpoints for which _fetch_xml or _fetch_alerts
                     \* called session.get, in order of issue
    capDoc,          \* input of _parse_cap_xml (pure-function specification)
    capOut,          \* its locals and result
    sevIn,           \* input of highest_severity (pure-function specification)
    sevOut,          \* its result
    dailyIn,         \* input of _aggregate_daily: the hourly list (pure-function specification)
    dailyOut,        \* its result
    chillIn,         \* input of _wind_chill: [temp_c, wind_mps] (pure-function specification)
    chillOut,        \* its result: None before the call, then Some(result)
    wxIn,            \* the gathered [forecast_xml, observation_xml] of _fetch_weather
                     \* (pure-function specification)
    wxData,          \* its local `data`: None, then what _parse_forecast did
    wxOut            \* its result: None before the return, then Some(data)

vars == <<alert_language, self_data, env, pc, clock, fcTask, obsTask, data,
          idxReq, links, tasks, detailReqs, detailStart, outOfOrder, returned,
          requests, capDoc, capOut, sevIn, sevOut, dailyIn, dailyOut,
          chillIn, chillOut, wxIn, wxData, wxOut>>

refreshVars == <<self_data, env, pc, clock, fcTask, obsTask, data, idxReq,
                 links, tasks, detailReqs, detailStart, outOfOrder, returned,
                 requests>>

capVars == <<capDoc, capOut>>

sevVars == <<sevIn, sevOut>>

dailyVars == <<dailyIn, dailyOut>>

\* The variables of the pure-function specifications added to the first two.
chillVars == <<chillIn, chillOut>>

wxVars == <<wxIn, wxData, wxOut>>

auxVars == <<dailyVars, chillVars, wxVars>>

(***************************************************************************)
(* Bounds of the model.                                                    *)
(***************************************************************************)
MaxLinks == 3

MaxInfos == 2

MaxAlerts == 4

MaxExtraLinks == 2

MaxFaults == 1

MaxHours == 3

MaxForecasts == 2

(***************************************************************************)
(* Program constants.                                                      *)
(***************************************************************************)
PHASE_TIMEOUT == 20

CAP_TIMEOUT == 10

DETAIL_LIMIT == 10

\* Granularity of the clock: half of the shortest deadline.
TickSeconds == CAP_TIMEOUT \div 2

None == <<>>

Some(v) == <<v>>

Min(S) == CHOOSE x \in S : \A y \in S : x <= y

Max(S) == CHOOSE x \in S : \A y \in S : y <= x

(***************************************************************************)
(* str helpers                                                             *)
(***************************************************************************)
UPPER == <<"A","B","C","D","E","F","G","H","I","J","K","L","M",
           "N","O","P","Q","R","S","T","U","V","W","X","Y","Z">>

LOWER == <<"a","b","c","d","e","f","g","h","i","j","k","l","m",
           "n","o","p","q","r","s","t","u","v","w","x","y","z">>

LowerChar(c) ==
    IF \E i \in DOMAIN UPPER : UPPER[i] = c
    THEN LOWER[CHOOSE i \in DOMAIN UPPER : UPPER[i] = c]
    ELSE c

\* str.lower()
Lower(s) == [i \in DOMAIN s |-> LowerChar(s[i])]

\* str.strip()
Strip(s) ==
    LET keep == {i \in DOMAIN s : s[i] # " "}
    IN  IF keep = {} THEN <<>>
        ELSE SubSeq(s, Min(keep), Max(keep))

\* str.startswith(prefix)
StartsWith(s, prefix) ==
    /\ Len(s) >= Len(prefix)
    /\ SubSeq(s, 1, Len(prefix)) = prefix

IS_ == <<"i","s">>

EN_ == <<"e","n">>

EXTREME_ == <<"e","x","t","r","e","m","e">>

SEVERE_ == <<"s","e","v","e","r","e">>

MODERATE_ == <<"m","o","d","e","r","a","t","e">>

MINOR_ == <<"m","i","n","o","r">>

UNKNOWN_ == <<"u","n","k","n","o","w","n">>

(***************************************************************************)
(* const.py                                                                *)
(***************************************************************************)
\* ALERT_LANGUAGES: the codes the configuration offers.
ALERT_LANGUAGES == {IS_, EN_}

\* SEVERITY_MAP
SEVERITY_MAP ==
    (EXTREME_ :> "red") @@ (SEVERE_ :> "orange") @@ (MODERATE_ :> "yellow")
    @@ (MINOR_ :> "yellow") @@ (UNKNOWN_ :> "unknown")

\* SEVERITY_ORDER
SEVERITY_ORDER ==
    ("red" :> 3) @@ ("orange" :> 2) @@ ("yellow" :> 1) @@ ("unknown" :> 0)

\* dict.get(key, default)
DictGet(d, key, default) == IF key \in DOMAIN d THEN d[key] ELSE default

(***************************************************************************)
(* xml.etree.ElementTree as the CAP parser uses it.  An element is a       *)
(* record; `ns` says whether its tag (and those of its children) is in the *)
(* CAP 1.2 namespace.  A child that holds only text is an optional str.    *)
(***************************************************************************)
NoElem == [present |-> FALSE, text |-> <<>>, nchild |-> 0]

\* parent.find(f"{cap_ns}{tag}") when qualified, parent.find(tag) otherwise,
\* for a text-only child.
Find(parent, qualified, tag) ==
    IF parent.ns = qualified /\ parent[tag] # None
    THEN [present |-> TRUE, text |-> parent[tag][1], nchild |-> 0]
    ELSE NoElem

\* Element.__bool__: an element is true iff it has children; None is false.
Truthy(e) == e.present /\ e.nchild > 0

\* Python's `a or b` on two find() results.
PyOr(a, b) == IF Truthy(a) THEN a ELSE b

\* Python's `a or b` on two findall() results (lists).
PyOrList(a, b) == IF Len(a) > 0 THEN a ELSE b

\* alert_elem.findall(f"{cap_ns}info") when qualified, findall("info") otherwise.
FindAllInfo(doc, qualified) == IF doc.ns = qualified THEN doc.infos ELSE <<>>

\* root.find(f".//{cap_ns}alert") when qualified, root.find(".//alert") otherwise.
FindAlert(doc, qualified) ==
    IF doc.root = "wrapped" /\ doc.ns = qualified
    THEN [present |-> TRUE, text |-> <<>>, nchild |-> Len(doc.infos)]
    ELSE NoElem

(***************************************************************************)
(* CAP alert parser (coordinator.py)                                       *)
(***************************************************************************)
\* The loop of _select_info_block from block i on, `fallback` as the code
\* holds it; alert_language is self.alert_language.
RECURSIVE SelectScan(_, _, _)
SelectScan(info_blocks, i, fallback) ==
    IF i > Len(info_blocks) THEN fallback
    ELSE LET info == info_blocks[i]
             lang_elem == PyOr(Find(info, TRUE, "language"),
                               Find(info, FALSE, "language"))
             lang == IF lang_elem.present /\ lang_elem.text # <<>>
                     THEN Lower(Strip(lang_elem.text))
                     ELSE <<>>
         IN  IF StartsWith(lang, alert_language) THEN Some(info)
             ELSE SelectScan(info_blocks, i + 1,
                             IF fallback = None THEN Some(info) ELSE fallback)

_select_info_block(info_blocks) == SelectScan(info_blocks, 1, None)

\* The local function txt of _parse_cap_xml.
txt(parent, tag) ==
    LET elem == PyOr(Find(parent, TRUE, tag), Find(parent, FALSE, tag))
    IN  IF elem.present /\ elem.text # <<>> THEN Some(Strip(elem.text)) ELSE None

\* The alert element _parse_cap_xml works on (lines 407-409).
AlertElem(content) ==
    IF content.root = "alert"
    THEN [present |-> TRUE, text |-> <<>>, nchild |-> Len(content.infos)]
    ELSE PyOr(FindAlert(content, TRUE), FindAlert(content, FALSE))

\* The info blocks _parse_cap_xml finds (line 413).
InfoBlocks(content) ==
    PyOrList(FindAllInfo(content, TRUE), FindAllInfo(content, FALSE))

\* The alert dict built from the selected info block (lines 425-438).
AlertDict(info, source_url) ==
    LET sev == txt(info, "severity")
        raw_severity == Lower(IF sev = None THEN <<>> ELSE sev[1])
    IN  [event          |-> txt(info, "event"),
         severity       |-> sev,
         severity_color |-> DictGet(SEVERITY_MAP, raw_severity, "unknown"),
         link           |-> source_url]

\* _parse_cap_xml: None, or the alert dict.
_parse_cap_xml(content, source_url) ==
    IF ~content.wellformed THEN None
    ELSE IF ~AlertElem(content).present THEN None
    ELSE IF Len(InfoBlocks(content)) = 0 THEN None
    ELSE LET info == _select_info_block(InfoBlocks(content))
         IN  IF info = None THEN None
             ELSE Some(AlertDict(info[1], source_url))

(***************************************************************************)
(* highest_severity (const.py)                                             *)
(***************************************************************************)
\* The loop of highest_severity from alert i on; best/best_val as the code
\* holds them.  An alert is a record; severity_color may be missing.
RECURSIVE SeverityScan(_, _, _, _)
SeverityScan(alerts, i, best, best_val) ==
    IF i > Len(alerts) THEN best
    ELSE LET sev == DictGet(alerts[i], "severity_color", "unknown")
             val == DictGet(SEVERITY_ORDER, sev, 0)
         IN  IF val > best_val
             THEN SeverityScan(alerts, i + 1, sev, val)
             ELSE SeverityScan(alerts, i + 1, best, best_val)

\* highest_severity with best_val = 0 for best_val = -1.
highest_severity_from_zero(alerts) == SeverityScan(alerts, 1, "none", 0)

highest_severity(alerts) == SeverityScan(alerts, 1, "none", 0 - 1)

\* VedurWeather.extra_state_attributes: the highest_alert_severity attribute.
highest_alert_severity(alerts) ==
    IF Len(alerts) > 0 THEN highest_severity(alerts) ELSE "none"

(***************************************************************************)
(* _wind_chill (coordinator.py).  Temperatures (degrees C) and wind speeds *)
(* (m/s) are in hundredths: 4.05 is 405.                                   *)
(***************************************************************************)
\* _WIND_CHILL_MAX_TEMP, in hundredths of a degree.
WIND_CHILL_MAX_TEMP == 1000

\* _WIND_CHILL_MIN_WIND, in hundredths of a km/h.
WIND_CHILL_MIN_WIND == 480

\* math.pow(wind_kmh, 0.16) in ten-thousandths, for the wind speeds (in
\* hundredths of a m/s) that the model uses.
Pow016 ==
    (100 :> 12275) @@ (133 :> 12848) @@ (134 :> 12863) @@ (400 :> 15323)
    @@ (500 :> 15880) @@ (605 :> 16372) @@ (610 :> 16393) @@ (1000 :> 17742)
    @@ (2500 :> 20544)

\* Lines 48-54: round(13.12 + 0.6215 T - 11.37 p + 0.3965 T p, 1) with
\* p = wind_kmh ** 0.16, computed in millionths and rounded to one decimal.
WindChillFormula(temp_c, wind_mps) ==
    LET p == Pow016[wind_mps]
        n == 13120000 + 6215 * temp_c - 1137 * p
             + (((3965 * p) \div 1000) * temp_c) \div 10
    IN  10 * ((n + 50000) \div 100000)

\* _wind_chill without the test of line 45.
_wind_chill_everywhere(temp_c, wind_mps) ==
    IF temp_c = None \/ wind_mps = None THEN None
    ELSE Some(WindChillFormula(temp_c[1], wind_mps[1]))

\* _wind_chill
_wind_chill(temp_c, wind_mps) ==
    IF temp_c = None \/ wind_mps = None THEN None
    ELSE IF temp_c[1] > WIND_CHILL_MAX_TEMP
            \/ 36 * wind_mps[1] < 10 * WIND_CHILL_MIN_WIND
    THEN temp_c
    ELSE Some(WindChillFormula(temp_c[1], wind_mps[1]))

(***************************************************************************)
(* _aggregate_daily (coordinator.py).  Numbers are in hundredths (4.05 m/s *)
(* is 405).  A date is <<month, day>>, the part of the ISO date string     *)
(* that varies; a datetime is [date, hour].  A dict with optional keys is  *)
(* a function whose domain holds the keys present.                         *)
(***************************************************************************)
RECURSIVE SumSeq(_)
SumSeq(s) == IF s = <<>> THEN 0 ELSE Head(s) + SumSeq(Tail(s))

\* The elements of a list as a set.
Range(s) == {s[i] : i \in DOMAIN s}

\* round(num / den, 1) for num / den >= 0: the multiple(s) of one tenth
\* nearest to num / den.  The float nearest to a decimal tie such as 5.05
\* lies on either side of it, so a tie may round either way.
Round1(num, den) ==
    LET lo == ((num \div den) \div 10) * 10
        below == num - lo * den
        above == (lo + 10) * den - num
    IN  IF below < above THEN {lo}
        ELSE IF below > above THEN {lo + 10}
        ELSE {lo, lo + 10}

\* Order of the ISO date strings "YYYY-MM-DD" of one year.
DateLess(a, b) == a[1] < b[1] \/ (a[1] = b[1] /\ a[2] < b[2])

\* dt.date().isoformat() of an entry's "datetime".
DateOf(entry) == entry.datetime.date

\* The keys of by_date in insertion order (lines 226-232), from entry i on.
RECURSIVE ByDateKeys(_, _, _)
ByDateKeys(hourly, i, keys) ==
    IF i > Len(hourly) THEN keys
    ELSE ByDateKeys(hourly, i + 1,
                    IF DateOf(hourly[i]) \in Range(keys) THEN keys
                    ELSE Append(keys, DateOf(hourly[i])))

\* by_date[date]: the entries of the date, in hourly order.
ByDate(hourly, date) ==
    LET OfDate(e) == DateOf(e) = date
    IN  SelectSeq(hourly, OfDate)

\* by_date iterated without sorted().
InsertionOrder(keys) == keys

\* sorted(by_date)
RECURSIVE Sorted(_)
Sorted(keys) ==
    IF keys = <<>> THEN <<>>
    ELSE LET S == Range(keys)
             first == CHOOSE d \in S : \A e \in S : e = d \/ DateLess(d, e)
             IsRest(d) == d # first
         IN  <<first>> \o Sorted(SelectSeq(keys, IsRest))

\* [e[key] for e in entries if e.get(key) is not None]
Samples(entries, key) ==
    LET Has(e) == key \in DOMAIN e /\ e[key] # None
        kept == SelectSeq(entries, Has)
    IN  [i \in DOMAIN kept |-> kept[i][key][1]]

\* Number of occurrences of c: conditions.count(c)
Count(conditions, c) == Cardinality({i \in DOMAIN conditions : conditions[i] = c})

\* max(set(conditions), key=conditions.count): the first code of maximal
\* count in the iteration order of the set, which for str depends on the
\* hash seed of the process; any code of maximal count can be the one.
ModalConditions(conditions) ==
    {c \in Range(conditions) :
        \A d \in Range(conditions) : Count(conditions, d) <= Count(conditions, c)}

\* sum(winds) / len(winds) without round().
MeanUnrounded(winds) == {SumSeq(winds) \div Len(winds)}

\* round(sum(winds) / len(winds), 1)
MeanRounded(winds) == Round1(SumSeq(winds), Len(winds))

\* round(sum(precips), 1)
SumRounded(precips) == Round1(SumSeq(precips), 1)

\* The summaries lines 235-257 can build for one date.
DaySummaries(date_str, entries) ==
    LET temps == Samples(entries, "temperature")
        winds == Samples(entries, "wind_speed")
        gusts == Samples(entries, "wind_gust")
        precips == Samples(entries, "precipitation")
        conditions == [i \in DOMAIN entries |-> entries[i].condition]
        base(c) ==
            [datetime    |-> [date |-> date_str, hour |-> 0],
             temperature |-> IF temps # <<>> THEN Some(Max(Range(temps))) ELSE None,
             templow     |-> IF temps # <<>> THEN Some(Min(Range(temps))) ELSE None,
             condition   |-> c]
        withWind(r) ==
            IF winds # <<>>
            THEN {r @@ ("wind_speed" :> m) : m \in MeanRounded(winds)}
            ELSE {r}
        withGust(r) ==
            IF gusts # <<>> THEN r @@ ("wind_gust" :> Max(Range(gusts))) ELSE r
        withPrecip(r) ==
            IF precips # <<>>
            THEN {r @@ ("precipitation" :> p) : p \in SumRounded(precips)}
            ELSE {r}
    IN  UNION { UNION { withPrecip(withGust(w)) : w \in withWind(base(Some(c))) } :
                c \in ModalConditions(conditions) }

\* _aggregate_daily: the lists of summaries it can return for `hourly`.
_aggregate_daily(hourly) ==
    IF hourly = <<>> THEN {<<>>}
    ELSE LET dates == Sorted(ByDateKeys(hourly, 1, <<>>))
             days(i) == DaySummaries(dates[i], ByDate(hourly, dates[i]))
         IN  {daily \in [DOMAIN dates -> UNION {days(i) : i \in DOMAIN dates}] :
                 \A i \in DOMAIN dates : daily[i] \in days(i)}

(***************************************************************************)
(* Awaitables and call results                                             *)
(***************************************************************************)
NotStarted == [kind |-> "not_started"]

Pending == [kind |-> "pending"]

Cancelled == [kind |-> "cancelled"]

\* A gathered result whose local variable went out of scope when
\* _fetch_weather returned.
Consumed == [kind |-> "consumed"]

Returned(v) == [kind |-> "returned", value |-> v]

Raised(e) == [kind |-> "raised", exc |-> e]

Settled(t) == t.kind \in {"returned", "raised"}

(***************************************************************************)
(* What the three endpoints may answer.  A response is a transport error   *)
(* or an HTTP status with a body; never answering is the absence of a      *)
(* response.                                                               *)
(***************************************************************************)
TransportError == [kind |-> "error"]

Http(status, body) == [kind |-> "http", status |-> status, body |-> body]

NoBody == [wellformed |-> FALSE]

\* The text of an XML element that float() parses, in hundredths.
Num(v) == Some([float |-> TRUE, v |-> v])

\* The text of an XML element that float() rejects.
Junk == Some([float |-> FALSE, v |-> 0])

\* The text of <ftime> that strptime parses, and one that it rejects.
FTime(date, hour) == Some([parsable |-> TRUE, date |-> date, hour |-> hour])

BadFTime == Some([parsable |-> FALSE, date |-> <<0, 0>>, hour |-> 0])

\* A <forecast> element: the text of its children (None: no such child).
\* T, F, FG, R hold numbers, D and W text, ftime the timestamp.
FcEntry(T, F, FG, R, D, W, ftime) ==
    [T |-> T, F |-> F, FG |-> FG, R |-> R, D |-> D, W |-> W, ftime |-> ftime]

\* A <station> element of the observation feed, likewise.
ObsStation(T, F, FG, R, D, W, time) ==
    [wellformed |-> TRUE, station |-> TRUE,
     T |-> T, F |-> F, FG |-> FG, R |-> R, D |-> D, W |-> W, time |-> time]

NoStation(wellformed) ==
    [wellformed |-> wellformed, station |-> FALSE,
     T |-> None, F |-> None, FG |-> None, R |-> None, D |-> None, W |-> None,
     time |-> None]

NA_ == <<"N","A">>

LIGHT_RAIN_ == <<"L","i","g","h","t"," ","r","a","i","n">>

\* Forecast feed bodies: malformed, no <station>, a station with zero
\* <forecast> entries, a station with one entry (with or without <T>).
ForecastBodies ==
    { [wellformed |-> FALSE, station |-> FALSE, forecasts |-> <<>>],
      [wellformed |-> TRUE,  station |-> FALSE, forecasts |-> <<>>],
      [wellformed |-> TRUE,  station |-> TRUE,  forecasts |-> <<>>],
      [wellformed |-> TRUE,  station |-> TRUE,
       forecasts |-> <<FcEntry(Num(400), Num(500), None, None, Some(NA_),
                               Some(LIGHT_RAIN_), FTime(<<2, 15>>, 6))>>],
      [wellformed |-> TRUE,  station |-> TRUE,
       forecasts |-> <<FcEntry(None, Num(500), None, None, None, None,
                               FTime(<<2, 15>>, 6))>>] }

\* Observation feed bodies: malformed, no <station>, a station with or
\* without a parsable <T>.
ObservationBodies ==
    { NoStation(FALSE),
      NoStation(TRUE),
      ObsStation(Num(700), None, None, None, None, None, Some("09:00")),
      ObsStation(None, None, None, None, None, None, None) }

Responses(bodies) ==
    {TransportError} \cup {Http(503, NoBody)} \cup {Http(200, b) : b \in bodies}

(***************************************************************************)
(* Phase 1: forecast and observations (coordinator.py)                     *)
(***************************************************************************)
\* _fetch_xml, given what the server answered.
_fetch_xml(response) ==
    IF response.kind = "error" THEN Raised("ClientError")
    ELSE IF response.status # 200 THEN Raised("UpdateFailed")
    ELSE Returned(response.body)

UpperChar(c) ==
    IF \E i \in DOMAIN LOWER : LOWER[i] = c
    THEN UPPER[CHOOSE i \in DOMAIN LOWER : LOWER[i] = c]
    ELSE c

\* str.upper()
Upper(s) == [i \in DOMAIN s |-> UpperChar(s[i])]

\* `sub in s`
Contains(s, sub) ==
    \E i \in 0..(Len(s) - Len(sub)) : SubSeq(s, i + 1, i + Len(sub)) = sub

\* WIND_DIRECTION_MAP (const.py), in tenths of a degree: the entries for
\* N, NNA, NA, A, S, SV, V, NNE, W.
WIND_DIRECTION_MAP ==
    (<<"N">> :> 0) @@ (<<"N","N","A">> :> 225) @@ (<<"N","A">> :> 450)
    @@ (<<"A">> :> 900) @@ (<<"S">> :> 1800) @@ (<<"S","V">> :> 2250)
    @@ (<<"V">> :> 2700) @@ (<<"N","N","E">> :> 225) @@ (<<"W">> :> 2700)

\* CONDITION_MAP (const.py) in its order: the entries for "clear sky",
\* "cloudy", "light rain", "rain", "snow".
CONDITION_MAP ==
    << <<<<"c","l","e","a","r"," ","s","k","y">>, "sunny">>,
       <<<<"c","l","o","u","d","y">>, "cloudy">>,
       <<<<"l","i","g","h","t"," ","r","a","i","n">>, "rainy">>,
       <<<<"r","a","i","n">>, "rainy">>,
       <<<<"s","n","o","w">>, "snowy">> >>

\* _text: the stripped text of the child, None without child or text.
_text(child) ==
    IF child # None /\ child[1] # <<>> THEN Some(Strip(child[1])) ELSE None

\* _float: the number of the child's text, None without child or when
\* float() raises ValueError.
_float(child) ==
    IF child # None /\ child[1].float THEN Some(child[1].v) ELSE None

\* _wind_bearing
_wind_bearing(element) ==
    LET direction == _text(element.D)
    IN  IF direction # None /\ direction[1] # <<>>
        THEN LET key == Upper(direction[1])
             IN  IF key \in DOMAIN WIND_DIRECTION_MAP
                 THEN Some(WIND_DIRECTION_MAP[key]) ELSE None
        ELSE None

\* _map_condition
_map_condition(text) ==
    IF text = None \/ text[1] = <<>> THEN "cloudy"
    ELSE LET lower == Lower(text[1])
             hits == {i \in DOMAIN CONDITION_MAP : Contains(lower, CONDITION_MAP[i][1])}
         IN  IF hits # {} THEN CONDITION_MAP[Min(hits)][2] ELSE "cloudy"

\* An entry dict of _parse_hourly (lines 198-216): "wind_gust" and
\* "precipitation" are keys only with a value.
HourlyEntry(date, hour, t, w, b, g, r, c) ==
    LET e0 == [datetime |-> [date |-> date, hour |-> hour],
               temperature |-> t, condition |-> c, wind_speed |-> w,
               wind_bearing |-> b, apparent_temperature |-> _wind_chill(t, w)]
        e1 == IF g # None THEN e0 @@ ("wind_gust" :> g) ELSE e0
    IN  IF r # None THEN e1 @@ ("precipitation" :> r) ELSE e1

\* _parse_hourly from forecast entry i on: entries without <ftime>, or with
\* one that strptime rejects, are skipped.
RECURSIVE ParseHourlyFrom(_, _)
ParseHourlyFrom(forecasts, i) ==
    IF i > Len(forecasts) THEN <<>>
    ELSE LET fc == forecasts[i]
         IN  (IF fc.ftime = None \/ ~fc.ftime[1].parsable THEN <<>>
              ELSE <<HourlyEntry(fc.ftime[1].date, fc.ftime[1].hour,
                                 _float(fc.T), _float(fc.F), _wind_bearing(fc),
                                 _float(fc.FG), _float(fc.R),
                                 _map_condition(_text(fc.W)))>>)
             \o ParseHourlyFrom(forecasts, i + 1)

_parse_hourly(forecasts) == ParseHourlyFrom(forecasts, 1)

\* self.station_name, self.station_id
STATION_NAME == "Reykjavik"

STATION_ID == "1"

\* A <forecast> without children.
EmptyEntry == FcEntry(None, None, None, None, None, None, None)

\* The data dict of _parse_forecast (lines 150-177) for `current` and the
\* forecasts: one dict for each list _aggregate_daily can return.  Of the
\* numeric fields, cloud_cover, dew_point, humidity, pressure and visibility
\* are left out; they are read as precipitation is.
ForecastData(current, forecasts) ==
    LET temp == _float(current.T)
        wind == _float(current.F)
        hourly == _parse_hourly(forecasts)
    IN  { [station_name    |-> STATION_NAME,
            station_id      |-> STATION_ID,
            temperature     |-> temp,
            wind_speed      |-> wind,
            wind_gust       |-> _float(current.FG),
            wind_direction  |-> _text(current.D),
            wind_bearing    |-> _wind_bearing(current),
            condition_text  |-> _text(current.W),
            condition       |-> _map_condition(_text(current.W)),
            forecast_time   |-> current.ftime,
            precipitation   |-> _float(current.R),
            feels_like      |-> _wind_chill(temp, wind),
            alerts          |-> <<>>,
            forecast_hourly |-> hourly,
            forecast_daily  |-> daily] : daily \in _aggregate_daily(hourly) }

\* _parse_forecast without the check of lines 146-147.
_parse_forecast_no_empty_check(xml_text) ==
    IF ~xml_text.wellformed THEN {Raised("UpdateFailed")}
    ELSE IF ~xml_text.station THEN {Raised("UpdateFailed")}
    ELSE {Returned(d) :
            d \in ForecastData(IF Len(xml_text.forecasts) = 0 THEN EmptyEntry
                               ELSE xml_text.forecasts[1], xml_text.forecasts)}

\* _parse_forecast: what it can do: raise UpdateFailed, or return a data dict.
_parse_forecast(xml_text) ==
    IF ~xml_text.wellformed THEN {Raised("UpdateFailed")}
    ELSE IF ~xml_text.station THEN {Raised("UpdateFailed")}
    ELSE IF Len(xml_text.forecasts) = 0 THEN {Raised("UpdateFailed")}
    ELSE {Returned(d) : d \in ForecastData(xml_text.forecasts[1], xml_text.forecasts)}

\* An overlay that stores the observation's value even when there is none.
OverlayAlways(old, val) == val

\* for key, tag in obs_map.items(): data[key] = val if val is not None
Overlay(old, val) == IF val # None THEN val ELSE old

\* The numeric observation fields.  Of obs_map, the keys temperature,
\* wind_speed, wind_gust and precipitation are modelled.
ApplyNumeric(data_, station) ==
    [data_ EXCEPT !.temperature = Overlay(@, _float(station.T)),
                  !.wind_speed = Overlay(@, _float(station.F)),
                  !.wind_gust = Overlay(@, _float(station.FG)),
                  !.precipitation = Overlay(@, _float(station.R))]

\* The wind direction of the observation, and its bearing when the table
\* has one.
ApplyWindDirection(data_, station) ==
    LET obs_dir == _text(station.D)
    IN  IF obs_dir # None /\ obs_dir[1] # <<>>
        THEN LET key == Upper(obs_dir[1])
             IN  [data_ EXCEPT
                    !.wind_direction = obs_dir,
                    !.wind_bearing = IF key \in DOMAIN WIND_DIRECTION_MAP
                                     THEN Some(WIND_DIRECTION_MAP[key]) ELSE @]
        ELSE data_

\* The weather condition of the observation.
ApplyCondition(data_, station) ==
    LET obs_weather == _text(station.W)
    IN  IF obs_weather # None /\ obs_weather[1] # <<>>
        THEN [data_ EXCEPT !.condition_text = obs_weather,
                           !.condition = _map_condition(obs_weather)]
        ELSE data_

\* An overlay that leaves feels_like as the forecast computed it.
KeepFeelsLike(data_) == data_

\* data["feels_like"] = _wind_chill(data.get("temperature"), data.get("wind_speed"))
RecomputeFeelsLike(data_) ==
    [data_ EXCEPT !.feels_like = _wind_chill(data_.temperature, data_.wind_speed)]

\* The observation time: the key "observation_time" exists only with a value.
ApplyObservationTime(data_, station) ==
    IF station.time # None /\ station.time[1] # ""
    THEN ("observation_time" :> station.time[1]) @@ data_
    ELSE data_

\* _apply_observations: the data dict after the overlay (the method mutates
\* the dict in place and returns nothing).
_apply_observations(data_, xml_text) ==
    IF ~xml_text.wellformed THEN data_
    ELSE IF ~xml_text.station THEN data_
    ELSE LET station == xml_text
         IN  ApplyObservationTime(
               RecomputeFeelsLike(
                 ApplyCondition(
                   ApplyWindDirection(
                     ApplyNumeric(data_, station), station), station)), station)

\* _fetch_weather after its gather: forecast_xml and observation_xml are the
\* two settled awaitables (return_exceptions=True); what it can do.
_fetch_weather(forecast_xml, observation_xml) ==
    IF forecast_xml.kind = "raised" THEN {Raised("UpdateFailed")}
    ELSE { IF parsed.kind = "raised" THEN parsed
           ELSE IF observation_xml.kind = "returned"
           THEN Returned(_apply_observations(parsed.value, observation_xml.value))
           ELSE parsed : parsed \in _parse_forecast(forecast_xml.value) }

(***************************************************************************)
(* Phase 2: alerts (coordinator.py)                                        *)
(***************************************************************************)
\* _parse_alert_feed: the links of the entries that have one, in feed order.
\* A feed body is [wellformed, entries]; an entry is the optional link that
\* _extract_link finds in it.
RECURSIVE FeedLinks(_, _)
FeedLinks(entries, i) ==
    IF i > Len(entries) THEN <<>>
    ELSE (IF entries[i] # None THEN <<entries[i][1]>> ELSE <<>>)
         \o FeedLinks(entries, i + 1)

_parse_alert_feed(content) ==
    IF ~content.wellformed THEN <<>> ELSE FeedLinks(content.entries, 1)

\* links without the slice.
FirstLinksUnbounded(ls) == ls

\* links[:10]
FirstLinks(ls) ==
    SubSeq(ls, 1, IF Len(ls) < DETAIL_LIMIT THEN Len(ls) ELSE DETAIL_LIMIT)

\* _fetch_cap_alert, given what the server answered for `url`.
_fetch_cap_alert(response, url) ==
    IF response.kind = "error" THEN Raised("ClientError")
    ELSE IF response.status # 200 THEN Returned(None)
    ELSE Returned(_parse_cap_xml(response.body, url))

\* The assembly loop with alerts.insert(0, result) for alerts.append(result).
RECURSIVE AssembleAlertsPrepending(_, _)
AssembleAlertsPrepending(results, i) ==
    IF i > Len(results) THEN <<>>
    ELSE AssembleAlertsPrepending(results, i + 1)
         \o (IF results[i].kind = "returned" /\ results[i].value # None
             THEN <<results[i].value[1]>> ELSE <<>>)

\* The assembly loop of _fetch_alerts over the gathered results, from i on.
RECURSIVE AssembleAlerts(_, _)
AssembleAlerts(results, i) ==
    IF i > Len(results) THEN <<>>
    ELSE (IF results[i].kind = "returned" /\ results[i].value # None
          THEN <<results[i].value[1]>> ELSE <<>>)
         \o AssembleAlerts(results, i + 1)

\* data["alerts"] = self.data.get("alerts", []) if self.data else []
PreviousAlerts == IF self_data # None THEN self_data[1].alerts ELSE <<>>

(***************************************************************************)
(* The refresh as a state machine.  pc: "idle", "phase1" (awaiting the     *)
(* gather of _fetch_weather under asyncio.timeout(20)), "phase2_index"     *)
(* (awaiting session.get(ALERTS_URL)), "phase2_details" (awaiting the      *)
(* gather of _fetch_cap_alert), "done" (snapshot returned), "failed"       *)
(* (UpdateFailed raised).                                                  *)
(***************************************************************************)
\* CAP documents the detail endpoint serves during a refresh.
CapMalformed == [wellformed |-> FALSE, ns |-> FALSE, root |-> "other", infos |-> <<>>]

CapNoInfo == [wellformed |-> TRUE, ns |-> TRUE, root |-> "alert", infos |-> <<>>]

CapSevere ==
    [wellformed |-> TRUE, ns |-> FALSE, root |-> "alert",
     infos |-> << [ns |-> FALSE, language |-> Some(<<"i","s","-","I","S">>),
                   severity |-> Some(<<"S","e","v","e","r","e">>),
                   event |-> Some(<<"g","a","l","e">>)] >>]

DetailBodies == {CapMalformed, CapNoInfo, CapSevere}

\* An alert of an earlier cycle, as self.data holds it.
OldAlert ==
    [event |-> Some(<<"i","c","e">>), severity |-> Some(<<"M","i","n","o","r">>),
     severity_color |-> "yellow", link |-> 0]

\* self.data when the refresh starts: None (first refresh) or the snapshot
\* of an earlier successful refresh.
PreviousData == {None, Some([temperature |-> Some(1), alerts |-> <<OldAlert>>])}

\* Index feed bodies: malformed, or n entries; entry i links to URL i or,
\* when `holes`, has no link.
FeedBodies(lens, holes) ==
    {[wellformed |-> FALSE, entries |-> <<>>]}
    \cup UNION { { [wellformed |-> TRUE,
                    entries |-> [i \in 1..n |-> IF i \in has THEN Some(i) ELSE None]] :
                   has \in IF holes THEN SUBSET (1..n) ELSE {1..n} } :
                 n \in lens }

\* Detail fetches that did not yield an alert.
FaultCount(ts) ==
    Cardinality({i \in DOMAIN ts :
        /\ Settled(ts[i])
        /\ ~(ts[i].kind = "returned" /\ ts[i].value # None)})

\* The environment of the full-interleaving specification: feeds of up to
\* MaxLinks entries, any detail fetch may fail, settle in any order.
RefreshEnv ==
    [inOrder |-> FALSE, maxFaults |-> MaxLinks, feedLens |-> 0..MaxLinks,
     holes |-> TRUE]

\* The environment of the long-feed specification: feeds around
\* DETAIL_LIMIT entries.  Settlements of distinct detail fetches commute,
\* so one representative order (link order) is explored, with at most
\* MaxFaults failing fetches.
BoundEnv ==
    [inOrder |-> TRUE, maxFaults |-> MaxFaults,
     feedLens |-> (DETAIL_LIMIT - 1)..(DETAIL_LIMIT + MaxExtraLinks),
     holes |-> FALSE]

AnyPending ==
    \/ pc = "phase1" /\ (fcTask = Pending \/ obsTask = Pending)
    \/ pc = "phase2_index" /\ idxReq = Pending
    \/ pc = "phase2_details" /\ \E i \in DOMAIN tasks : tasks[i] = Pending

CancelIfPending(t) == IF t = Pending THEN Cancelled ELSE t

\* A session.get that is issued again after the first attempt.
GetWithRetry(log, endpoint) == Append(Append(log, endpoint), endpoint)

\* session.get(url) is called once: the request joins the log.
Get(log, endpoint) == Append(log, endpoint)

\* A gather that returns as soon as the forecast fetch has settled.
ForecastDone(forecast_xml, observation_xml) == Settled(forecast_xml)

\* await asyncio.gather(..., return_exceptions=True) of _fetch_weather
\* returns: both awaitables have settled.
GatherDone(forecast_xml, observation_xml) ==
    Settled(forecast_xml) /\ Settled(observation_xml)

\* A second asyncio.timeout that goes on counting where the first stopped.
ContinueTimeout(elapsed) == elapsed

\* `async with asyncio.timeout(20)` is entered: the deadline counts from
\* now, whatever time has elapsed before.
EnterTimeout(elapsed) == 0

\* _async_update_data is called: phase 1 enters asyncio.timeout(20) and
\* _fetch_weather starts both fetches in one gather.
StartRefresh ==
    /\ pc = "idle"
    /\ pc' = "phase1"
    /\ clock' = EnterTimeout(clock)
    /\ fcTask' = Pending
    /\ obsTask' = Pending
    /\ requests' = Get(Get(requests, "forecast"), "observation")
    /\ UNCHANGED <<alert_language, self_data, env, data, idxReq, links, tasks,
                   detailReqs, detailStart, outOfOrder, returned, capVars, sevVars, auxVars>>

\* The forecast endpoint answers.
ForecastResponse(response) ==
    /\ pc = "phase1"
    /\ fcTask = Pending
    /\ fcTask' = _fetch_xml(response)
    /\ UNCHANGED <<alert_language, self_data, env, pc, clock, obsTask, data,
                   idxReq, links, tasks, detailReqs, detailStart, outOfOrder, returned,
                   capVars, sevVars, auxVars,
                   requests>>

\* The observation endpoint answers.
ObservationResponse(response) ==
    /\ pc = "phase1"
    /\ obsTask = Pending
    /\ obsTask' = _fetch_xml(response)
    /\ UNCHANGED <<alert_language, self_data, env, pc, clock, fcTask, data,
                   idxReq, links, tasks, detailReqs, detailStart, outOfOrder, returned,
                   capVars, sevVars, auxVars,
                   requests>>

\* Time passes while something is awaited and no deadline is due.
Tick ==
    /\ AnyPending
    /\ clock < PHASE_TIMEOUT
    /\ (pc = "phase2_details" => clock < detailStart + CAP_TIMEOUT)
    /\ clock' = clock + TickSeconds
    /\ UNCHANGED <<alert_language, self_data, env, pc, fcTask, obsTask, data,
                   idxReq, links, tasks, detailReqs, detailStart, outOfOrder, returned,
                   capVars, sevVars, auxVars,
                   requests>>

\* asyncio.timeout(20) of phase 1 expires: TimeoutError -> UpdateFailed
\* (lines 85-88).
Phase1Timeout ==
    /\ pc = "phase1"
    /\ AnyPending
    /\ clock >= PHASE_TIMEOUT
    /\ pc' = "failed"
    /\ returned' = Raised("UpdateFailed")
    /\ fcTask' = CancelIfPending(fcTask)
    /\ obsTask' = CancelIfPending(obsTask)
    /\ UNCHANGED <<alert_language, self_data, env, clock, data, idxReq, links,
                   tasks, detailReqs, detailStart, outOfOrder, capVars, sevVars, auxVars,
                   requests>>

\* The gather of _fetch_weather has both results: the rest of _fetch_weather
\* runs, then either UpdateFailed is raised (lines 89-92) or _fetch_weather
\* returns (forecast_xml and observation_xml go out of scope), phase 2 enters
\* its own asyncio.timeout(20) and _fetch_alerts requests the index.
Phase1Join ==
    /\ pc = "phase1"
    /\ GatherDone(fcTask, obsTask)
    /\ \E r \in _fetch_weather(fcTask, obsTask) :
           IF r.kind = "raised"
           THEN /\ pc' = "failed"
                /\ returned' = Raised("UpdateFailed")
                /\ UNCHANGED <<clock, data, idxReq, fcTask, obsTask, requests>>
           ELSE /\ pc' = "phase2_index"
                /\ data' = Some(r.value)
                /\ clock' = EnterTimeout(clock)
                /\ idxReq' = Pending
                /\ requests' = Get(requests, "alerts")
                /\ fcTask' = Consumed
                /\ obsTask' = Consumed
                /\ UNCHANGED returned
    /\ UNCHANGED <<alert_language, self_data, env, links, tasks, detailReqs,
                   detailStart, outOfOrder, capVars, sevVars, auxVars>>

\* data["alerts"] = alerts  (line 97 or line 100)
WithAlerts(alerts) == Some([data[1] EXCEPT !.alerts = alerts])

\* The handler of phase 2 as `except asyncio.TimeoutError`.
Phase2ExceptTimeoutOnly(exc) ==
    IF exc = "TimeoutError" THEN Returned(PreviousAlerts) ELSE Raised(exc)

\* The handler of phase 2 (lines 98-100) for an exception of type exc:
\* `except Exception` takes every exception and yields the alerts of
\* self.data.
Phase2Except(exc) == Returned(PreviousAlerts)

\* _fetch_alerts up to the start of the detail fetches (lines 325-335),
\* given the index endpoint's answer: the exception it lets through, the
\* empty list it returns early, or the links it goes on with.
FetchAlertsIndex(response) ==
    IF response.kind = "error" THEN Raised("ClientError")
    ELSE IF response.status # 200 THEN Returned(<<>>)
    ELSE LET ls == _parse_alert_feed(response.body)
         IN  IF Len(ls) = 0 THEN Returned(<<>>)
             ELSE [kind |-> "links", links |-> ls]

\* Phase 2 ends with result r of the try block (or of its handler): the
\* snapshot is returned, or the exception leaves _async_update_data.
FinishPhase2(r) ==
    IF r.kind = "raised"
    THEN /\ pc' = "failed"
         /\ returned' = r
         /\ UNCHANGED data
    ELSE /\ pc' = "done"
         /\ data' = WithAlerts(r.value)
         /\ returned' = Returned(data'[1])

\* The index endpoint answers.
IndexResponse(response) ==
    /\ pc = "phase2_index"
    /\ idxReq = Pending
    /\ LET r == FetchAlertsIndex(response)
       IN  /\ idxReq' = IF r.kind = "raised" THEN r ELSE Returned(response)
           /\ IF r.kind = "links"
              THEN /\ links' = r.links
                   /\ detailReqs' = FirstLinks(r.links)
                   /\ tasks' = [i \in 1..Len(FirstLinks(r.links)) |-> Pending]
                   /\ detailStart' = clock
                   /\ pc' = "phase2_details"
                   /\ UNCHANGED <<data, returned>>
              ELSE /\ FinishPhase2(IF r.kind = "raised" THEN Phase2Except(r.exc) ELSE r)
                   /\ UNCHANGED <<links, tasks, detailReqs, detailStart>>
    /\ UNCHANGED <<alert_language, self_data, env, clock, fcTask, obsTask,
                   outOfOrder, capVars, sevVars, auxVars,
                   requests>>

\* The detail endpoint answers the request of task i.
DetailResponse(i, response) ==
    /\ pc = "phase2_details"
    /\ tasks[i] = Pending
    /\ env.inOrder => \A j \in 1..(i - 1) : Settled(tasks[j])
    /\ LET r == _fetch_cap_alert(response, detailReqs[i])
       IN  /\ (r.kind = "returned" /\ r.value # None)
                 \/ FaultCount(tasks) < env.maxFaults
           /\ tasks' = [tasks EXCEPT ![i] = r]
    /\ outOfOrder' = (outOfOrder \/ \E j \in 1..(i - 1) : tasks[j] = Pending)
    /\ UNCHANGED <<alert_language, self_data, env, pc, clock, fcTask, obsTask,
                   data, idxReq, links, detailReqs, detailStart, returned,
                   capVars, sevVars, auxVars,
                   requests>>

\* asyncio.timeout(10) of task i expires (line 391).
DetailTimeout(i) ==
    /\ pc = "phase2_details"
    /\ tasks[i] = Pending
    /\ clock >= detailStart + CAP_TIMEOUT
    /\ env.inOrder => \A j \in 1..(i - 1) : Settled(tasks[j])
    /\ FaultCount(tasks) < env.maxFaults
    /\ tasks' = [tasks EXCEPT ![i] = Raised("TimeoutError")]
    /\ outOfOrder' = (outOfOrder \/ \E j \in 1..(i - 1) : tasks[j] = Pending)
    /\ UNCHANGED <<alert_language, self_data, env, pc, clock, fcTask, obsTask,
                   data, idxReq, links, detailReqs, detailStart, returned,
                   capVars, sevVars, auxVars,
                   requests>>

\* asyncio.timeout(20) of phase 2 expires: the pending fetches are
\* cancelled, TimeoutError reaches the handler of lines 98-100.
Phase2Timeout ==
    /\ pc \in {"phase2_index", "phase2_details"}
    /\ AnyPending
    /\ clock >= PHASE_TIMEOUT
    /\ idxReq' = CancelIfPending(idxReq)
    /\ tasks' = [i \in DOMAIN tasks |-> CancelIfPending(tasks[i])]
    /\ FinishPhase2(Phase2Except("TimeoutError"))
    /\ UNCHANGED <<alert_language, self_data, env, clock, fcTask, obsTask,
                   links, detailReqs, detailStart, outOfOrder, capVars, sevVars, auxVars,
                   requests>>

\* The gather of _fetch_alerts has every result: the alerts are assembled
\* (lines 338-344) and the snapshot is returned.
AlertsJoin ==
    /\ pc = "phase2_details"
    /\ \A i \in DOMAIN tasks : Settled(tasks[i])
    /\ FinishPhase2(Returned(AssembleAlerts(tasks, 1)))
    /\ UNCHANGED <<alert_language, self_data, env, clock, fcTask, obsTask,
                   idxReq, links, tasks, detailReqs, detailStart, outOfOrder,
                   capVars, sevVars, auxVars,
                   requests>>

(***************************************************************************)
(* _parse_cap_xml and highest_severity as pure functions of their input    *)
(***************************************************************************)
DIGITS == <<"1","2","3","4","5","6","7","8","9">>

\* Text of <language>: absent, "is", "en", " IS-is", "en-US".
LangTexts ==
    { None, Some(<<"i","s">>), Some(<<"e","n">>),
      Some(<<" ","I","S","-","i","s">>), Some(<<"e","n","-","U","S">>) }

\* Text of <severity>: absent, "Extreme", "SEVERE", "moderate", " Minor ",
\* "Other".
SevTexts ==
    << None, Some(<<"E","x","t","r","e","m","e">>),
       Some(<<"S","E","V","E","R","E">>),
       Some(<<"m","o","d","e","r","a","t","e">>),
       Some(<<" ","M","i","n","o","r"," ">>),
       Some(<<"O","t","h","e","r">>) >>

\* n info blocks; block i carries the event text "ev<i>", any language of
\* LangTexts, and the severity text k + i of SevTexts (cyclically), so that
\* every block position meets every severity text.
InfoSeqs(ns) ==
    UNION { { [i \in 1..n |->
                 [ns |-> ns, language |-> f[i],
                  severity |-> SevTexts[((k + i) % Len(SevTexts)) + 1],
                  event |-> Some(<<"e","v",DIGITS[i]>>)]] :
              f \in [1..n -> LangTexts], k \in 1..Len(SevTexts) } :
            n \in 0..MaxInfos }

\* CAP documents: malformed, well-formed without an <alert>, and <alert>
\* as the root or below it, namespaced (CAP 1.2) or with bare tags.
CapDocs ==
    { CapMalformed,
      [wellformed |-> TRUE, ns |-> FALSE, root |-> "other", infos |-> <<>>] }
    \cup { [wellformed |-> TRUE, ns |-> d[1], root |-> d[2], infos |-> d[3]] :
           d \in UNION { {<<ns, root, infos>> : root \in {"alert", "wrapped"},
                                                infos \in InfoSeqs(ns)} :
                         ns \in BOOLEAN } }

\* The local `info` of _parse_cap_xml (line 417), None when it is not reached.
SelectedInfo(content) ==
    IF content.wellformed /\ AlertElem(content).present
       /\ Len(InfoBlocks(content)) > 0
    THEN _select_info_block(InfoBlocks(content))
    ELSE None

\* _parse_cap_xml(capDoc, url) is called.
ParseCap ==
    /\ capOut.stage = "idle"
    /\ capOut' = [stage |-> "parsed",
                  info  |-> SelectedInfo(capDoc),
                  alert |-> _parse_cap_xml(capDoc, 1)]
    /\ UNCHANGED <<alert_language, refreshVars, capDoc, sevVars, auxVars>>

\* highest_severity(sevIn) is called, and the attribute of
\* extra_state_attributes is computed.
ComputeHighest ==
    /\ sevOut = None
    /\ sevOut' = Some([highest   |-> highest_severity(sevIn),
                       attribute |-> highest_alert_severity(sevIn)])
    /\ UNCHANGED <<alert_language, refreshVars, capVars, sevIn, auxVars>>

(***************************************************************************)
(* Inputs and calls of _aggregate_daily                                   *)
(***************************************************************************)
\* Dates of the generated entries: 12-01 and 02-15.
HourlyDates == {<<12, 1>>, <<2, 15>>}

\* <<temperature, wind_speed, wind_gust, precipitation>> of the generated
\* entries.
HourlyNumbers ==
    { <<Some(500), Some(400), None, None>>,
      <<Some(900), Some(610), Some(1250), Some(25)>>,
      <<Some(0 - 200), None, Some(800), Some(110)>>,
      <<None, None, None, None>>,
      <<Some(0 - 700), Some(605), None, Some(15)>> }

HourlyConditions == {"sunny", "rainy"}

HourlyEntries ==
    {HourlyEntry(d, 6, n[1], n[2], None, n[3], n[4], c) :
        d \in HourlyDates, n \in HourlyNumbers, c \in HourlyConditions}

\* Hourly lists of up to MaxHours entries.
HourlyLists == UNION {[1..n -> HourlyEntries] : n \in 0..MaxHours}

\* _aggregate_daily(dailyIn) is called.
AggregateDaily ==
    /\ dailyOut = None
    /\ \E daily \in _aggregate_daily(dailyIn) : dailyOut' = Some(daily)
    /\ UNCHANGED <<alert_language, refreshVars, capVars, sevVars, dailyIn, chillVars,
                   wxVars>>

(***************************************************************************)
(* Specifications                                                          *)
(***************************************************************************)
CapIdle == [stage |-> "idle"]

\* The other pure functions are not called.
ChillIdle == [temp_c |-> None, wind_mps |-> None]

DailyIdle == dailyIn = <<>> /\ dailyOut = None

WxIdle ==
    /\ wxIn = [forecast_xml |-> NotStarted, observation_xml |-> NotStarted]
    /\ wxData = None /\ wxOut = None

AuxIdle ==
    /\ DailyIdle
    /\ chillIn = ChillIdle /\ chillOut = None
    /\ WxIdle

InitRefresh(e) ==
    /\ env = e
    /\ pc = "idle"
    /\ clock = 0
    /\ fcTask = NotStarted
    /\ obsTask = NotStarted
    /\ data = None
    /\ idxReq = NotStarted
    /\ links = <<>>
    /\ tasks = <<>>
    /\ detailReqs = <<>>
    /\ detailStart = 0
    /\ outOfOrder = FALSE
    /\ returned = NotStarted
    /\ requests = <<>>

Init ==
    /\ alert_language \in ALERT_LANGUAGES
    /\ self_data \in PreviousData
    /\ InitRefresh(RefreshEnv)
    /\ capDoc = CapMalformed /\ capOut = CapIdle
    /\ sevIn = <<>> /\ sevOut = None
    /\ AuxIdle

Next ==
    \/ StartRefresh
    \/ \E r \in Responses(ForecastBodies) : ForecastResponse(r)
    \/ \E r \in Responses(ObservationBodies) : ObservationResponse(r)
    \/ Tick
    \/ Phase1Timeout
    \/ Phase1Join
    \/ \E r \in Responses(FeedBodies(env.feedLens, env.holes)) : IndexResponse(r)
    \/ \E i \in DOMAIN tasks : \E r \in Responses(DetailBodies) : DetailResponse(i, r)
    \/ \E i \in DOMAIN tasks : DetailTimeout(i)
    \/ Phase2Timeout
    \/ AlertsJoin

\* One refresh; feeds of up to MaxLinks links, every interleaving.
Spec == Init /\ [][Next]_vars

InitBound ==
    /\ alert_language = IS_
    /\ self_data \in PreviousData
    /\ InitRefresh(BoundEnv)
    /\ capDoc = CapMalformed /\ capOut = CapIdle
    /\ sevIn = <<>> /\ sevOut = None
    /\ AuxIdle

\* One refresh; feeds of DETAIL_LIMIT - 1 .. DETAIL_LIMIT + MaxExtraLinks links.
SpecBound == InitBound /\ [][Next]_vars

InitCap ==
    /\ alert_language \in ALERT_LANGUAGES
    /\ self_data = None
    /\ InitRefresh(RefreshEnv)
    /\ capDoc \in CapDocs /\ capOut = CapIdle
    /\ sevIn = <<>> /\ sevOut = None
    /\ AuxIdle

NextCap == ParseCap

\* _parse_cap_xml on every document of CapDocs, for every preferred language.
SpecCap == InitCap /\ [][NextCap]_vars

Tiers == {"red", "orange", "yellow", "unknown"}

\* Alert lists of up to MaxAlerts alerts, every combination of tiers.
AlertLists ==
    UNION { [1..n -> {[severity_color |-> t] : t \in Tiers}] : n \in 0..MaxAlerts }

InitSev ==
    /\ alert_language = IS_
    /\ self_data = None
    /\ InitRefresh(RefreshEnv)
    /\ capDoc = CapMalformed /\ capOut = CapIdle
    /\ sevIn \in AlertLists /\ sevOut = None
    /\ AuxIdle

NextSev == ComputeHighest

\* highest_severity on every alert list of AlertLists.
SpecSev == InitSev /\ [][NextSev]_vars

InitDaily ==
    /\ alert_language = IS_
    /\ self_data = None
    /\ InitRefresh(RefreshEnv)
    /\ capDoc = CapMalformed /\ capOut = CapIdle
    /\ sevIn = <<>> /\ sevOut = None
    /\ dailyIn \in HourlyLists /\ dailyOut = None
    /\ chillIn = ChillIdle /\ chillOut = None
    /\ WxIdle

NextDaily == AggregateDaily

\* _aggregate_daily on every hourly list of HourlyLists.
SpecDaily == InitDaily /\ [][NextDaily]_vars

\* Temperatures and wind speeds given to _wind_chill: absent, or a value
\* on either side of the two thresholds (4.788 and 4.824 km/h; 9.95, 10.0,
\* 10.05 degrees).
ChillTemps ==
    {None} \cup {Some(t) : t \in {0 - 2000, 0 - 500, 0, 400, 995, 1000, 1005, 1200, 2500}}

ChillWinds == {None} \cup {Some(w) : w \in DOMAIN Pow016}

\* _wind_chill(chillIn.temp_c, chillIn.wind_mps) is called.
ComputeChill ==
    /\ chillOut = None
    /\ chillOut' = Some(_wind_chill(chillIn.temp_c, chillIn.wind_mps))
    /\ UNCHANGED <<alert_language, refreshVars, capVars, sevVars, dailyVars, chillIn,
                   wxVars>>

InitChill ==
    /\ alert_language = IS_
    /\ self_data = None
    /\ InitRefresh(RefreshEnv)
    /\ capDoc = CapMalformed /\ capOut = CapIdle
    /\ sevIn = <<>> /\ sevOut = None
    /\ DailyIdle
    /\ chillIn \in [temp_c : ChillTemps, wind_mps : ChillWinds] /\ chillOut = None
    /\ WxIdle

NextChill == ComputeChill

\* _wind_chill on every pair of ChillTemps and ChillWinds.
SpecChill == InitChill /\ [][NextChill]_vars

(***************************************************************************)
(* _fetch_weather after its gather, as a pure function of the two gathered *)
(* results: _parse_forecast, then _apply_observations.                     *)
(***************************************************************************)
\* Numbers of a generated <forecast>: <<T, F, FG, R>>.
FcNumbers ==
    { <<Num(400), Num(500), Num(900), Num(10)>>,
      <<Num(1200), Num(100), None, None>>,
      <<Junk, None, Junk, None>> }

\* Its wind direction: none, a label of the table, a label outside it.
FcDirs == {None, Some(<<"N","A">>), Some(<<"x","y">>)}

\* Its timestamp: none, one strptime rejects, a valid one.
FcTimes == {None, BadFTime, FTime(<<2, 15>>, 6)}

\* The first <forecast> of a generated feed.
FcHeadEntries ==
    {FcEntry(n[1], n[2], n[3], n[4], d, IF d = None THEN None ELSE Some(LIGHT_RAIN_), t) :
        n \in FcNumbers, d \in FcDirs, t \in FcTimes}

\* The later ones: one of the same day, one of the next day, one whose
\* timestamp strptime rejects.
FcTailEntries ==
    { FcEntry(Num(700), Num(1000), None, Num(20), Some(<<"S","V">>),
              Some(<<"S","n","o","w">>), FTime(<<2, 15>>, 9)),
      FcEntry(Num(-500), Num(500), Num(1000), None, None, None, FTime(<<2, 16>>, 0)),
      FcEntry(Num(400), Num(500), None, None, None, None, BadFTime) }

RECURSIVE FcTails(_)
FcTails(n) ==
    IF n = 0 THEN {<<>>}
    ELSE FcTails(n - 1)
         \cup {Append(l, e) : l \in {m \in FcTails(n - 1) : Len(m) = n - 1},
                               e \in FcTailEntries}

\* Forecast feeds: what the gather can hold for the forecast fetch.
ForecastResults ==
    {Raised("ClientError"),
     Returned([wellformed |-> FALSE, station |-> FALSE, forecasts |-> <<>>]),
     Returned([wellformed |-> TRUE, station |-> FALSE, forecasts |-> <<>>]),
     Returned([wellformed |-> TRUE, station |-> TRUE, forecasts |-> <<>>])}
    \cup {Returned([wellformed |-> TRUE, station |-> TRUE, forecasts |-> <<h>> \o l]) :
            h \in FcHeadEntries, l \in FcTails(MaxForecasts - 1)}

\* Observation feeds: what the gather can hold for the observation fetch.
\* <D> may be blank, or a label in lower case with blanks around it.
ObservationResults ==
    {Raised("ClientError"), Returned(NoStation(FALSE)), Returned(NoStation(TRUE))}
    \cup {Returned(ObsStation(T, F, g[1], g[2], D, W, g[3])) :
            T \in {None, Junk, Num(700)},
            F \in {None, Num(1000)},
            g \in { <<None, None, None>>, <<Num(1500), Num(20), Some("09:00")>> },
            D \in {None, Some(<<" "," ">>), Some(<<" ","s","v"," ">>), Some(<<"X","Y">>)},
            W \in {None, Some(<<"C","l","e","a","r"," ","s","k","y">>)} }

\* Lines 113-118: a failed forecast fetch raises UpdateFailed, else
\* data = self._parse_forecast(forecast_xml), which may raise.
ParseForecast ==
    /\ wxIn.forecast_xml # NotStarted
    /\ wxData = None
    /\ IF wxIn.forecast_xml.kind = "raised"
       THEN wxData' = Some(Raised("UpdateFailed"))
       ELSE \E parsed \in _parse_forecast(wxIn.forecast_xml.value) :
                wxData' = Some(parsed)
    /\ UNCHANGED <<alert_language, refreshVars, capVars, sevVars, dailyVars, chillVars,
                   wxIn, wxOut>>

\* Lines 121-125: the overlay when observation_xml is a str, and the return.
ApplyObservations ==
    /\ wxData # None
    /\ wxData[1].kind = "returned"
    /\ wxOut = None
    /\ wxOut' = Some(IF wxIn.observation_xml.kind = "returned"
                     THEN _apply_observations(wxData[1].value, wxIn.observation_xml.value)
                     ELSE wxData[1].value)
    /\ UNCHANGED <<alert_language, refreshVars, capVars, sevVars, dailyVars, chillVars,
                   wxIn, wxData>>

InitWeather ==
    /\ alert_language = IS_
    /\ self_data = None
    /\ InitRefresh(RefreshEnv)
    /\ capDoc = CapMalformed /\ capOut = CapIdle
    /\ sevIn = <<>> /\ sevOut = None
    /\ DailyIdle
    /\ chillIn = ChillIdle /\ chillOut = None
    /\ wxIn \in [forecast_xml : ForecastResults, observation_xml : ObservationResults]
    /\ wxData = None /\ wxOut = None

NextWeather == ParseForecast \/ ApplyObservations

\* _fetch_weather on every pair of ForecastResults and ObservationResults.
SpecWeather == InitWeather /\ [][NextWeather]_vars

(***************************************************************************)
(* Properties                                                              *)
(***************************************************************************)
\* What the claims call a failing forecast body: malformed XML, no station
\* record, or zero forecast entries.
ForecastBodyBad(b) == ~b.wellformed \/ ~b.station \/ Len(b.forecasts) = 0

ForecastSucceeded == fcTask.kind = "returned" /\ ~ForecastBodyBad(fcTask.value)

ForecastFailed ==
    \/ fcTask.kind = "raised"
    \/ fcTask.kind = "returned" /\ ForecastBodyBad(fcTask.value)

Phase2 == {"phase2_index", "phase2_details"}

\* The detail gather ran to its end and the alerts were assembled from it.
Assembled ==
    /\ pc = "done"
    /\ Len(tasks) > 0
    /\ \A i \in DOMAIN tasks : Settled(tasks[i])

SucceededDetails ==
    {i \in DOMAIN tasks : tasks[i].kind = "returned" /\ tasks[i].value # None}

\* C1: whenever the forecast fetch and the forecast parse succeed, the
\* refresh does not end in UpdateFailed, whatever the observation fetch
\* does (non-200, transport error, no answer before the phase-1 deadline,
\* malformed XML, no station record).
C1_ObservationErrorsNeverSurface == ForecastSucceeded => pc # "failed"

\* Lemma for C1: an observation fetch that settles (with a body or an error)
\* never fails a refresh whose forecast succeeded.
SettledObservationNeverSurfaces ==
    (ForecastSucceeded /\ Settled(obsTask)) => pc # "failed"

\* C2: a refresh whose forecast fetch raised (non-200, transport error) or
\* whose forecast body is malformed, has no station or has zero forecast
\* entries leaves phase 1 only by raising UpdateFailed, and so does a
\* refresh whose phase 1 ran into its deadline; a failed refresh returns no
\* snapshot and has issued no alert request.
C2_ForecastErrorsFailRefresh ==
    /\ [][(pc = "phase1" /\ ForecastFailed) => pc' \in {"phase1", "failed"}]_vars
    /\ []((fcTask = Cancelled \/ obsTask = Cancelled) => pc = "failed")
    /\ [](pc = "failed" =>
            /\ returned = Raised("UpdateFailed")
            /\ data = None
            /\ idxReq = NotStarted)

\* C2 witness: a forecast body with a station and zero forecast entries,
\* next to a valid observation, has failed the refresh.
C2_Witness ==
    /\ pc = "failed"
    /\ fcTask.kind = "returned"
    /\ fcTask.value.station /\ Len(fcTask.value.forecasts) = 0
    /\ obsTask.kind = "returned"
    /\ _float(obsTask.value.T) # None

\* C3: whenever phase 2 obtains no alert links (index fetch failed or timed
\* out, non-200 status, unparsable body, zero links) the snapshot's alerts
\* are the alerts of self.data, unchanged.
C3_NoLinksKeepsPreviousAlerts ==
    (pc = "done" /\ Len(links) = 0) => data[1].alerts = PreviousAlerts

\* C4: whenever the index yields at least one link, the snapshot's alerts
\* are exactly the results of the detail fetches that returned an alert.
C4_PerAlertIsolation ==
    (pc = "done" /\ Len(links) > 0) =>
        LET alerts == data[1].alerts
        IN  /\ Len(alerts) = Cardinality(SucceededDetails)
            /\ \A i \in SucceededDetails :
                   \E k \in DOMAIN alerts : alerts[k] = tasks[i].value[1]

\* A step taken in phase 2 stays in phase 2 or returns, and keeps the
\* phase-1 fields of the snapshot.
Phase2StepKeepsSnapshot ==
    pc \in Phase2 =>
        /\ pc' \in Phase2 \cup {"done"}
        /\ data' # None
        /\ data'[1].temperature = data[1].temperature

\* C5: once phase 1 has produced the snapshot, no step of phase 2 fails the
\* refresh or changes the phase-1 fields, and the refresh returns `data`
\* with an alerts list in it.
C5_Phase2NeverFails ==
    /\ [][Phase2StepKeepsSnapshot]_vars
    /\ [](pc = "done" =>
            /\ returned = Returned(data[1])
            /\ "alerts" \in DOMAIN returned.value
            /\ DOMAIN returned.value.alerts = 1..Len(returned.value.alerts))

\* C5 witness: the refresh returned although the phase-2 deadline expired
\* with a detail fetch pending and another detail fetch had raised.
C5_Witness ==
    /\ pc = "done"
    /\ \E i \in DOMAIN tasks : tasks[i] = Cancelled
    /\ \E i \in DOMAIN tasks : tasks[i].kind = "raised"

\* C6: the assembled alerts are in the order of their links in the feed.
C6_AlertOrderIsFeedOrder ==
    Assembled =>
        LET alerts == data[1].alerts
            pos(l) == CHOOSE i \in DOMAIN links : links[i] = l
        IN  /\ \A a \in DOMAIN alerts : \E i \in DOMAIN links : links[i] = alerts[a].link
            /\ \A a, b \in DOMAIN alerts :
                   a < b => pos(alerts[a].link) < pos(alerts[b].link)

\* C6 witness: two or more alerts were assembled after a detail fetch had
\* settled before one of a lower index.
C6_Witness == Assembled /\ outOfOrder /\ Len(data[1].alerts) >= 2

\* C7: at most DETAIL_LIMIT detail documents are requested; a feed with more
\* links has exactly its first DETAIL_LIMIT requested, in feed order; the
\* assembled snapshot holds at most DETAIL_LIMIT alerts.
C7_DetailFetchBound ==
    /\ Len(detailReqs) <= DETAIL_LIMIT
    /\ Len(tasks) = Len(detailReqs)
    /\ Len(links) > DETAIL_LIMIT => detailReqs = SubSeq(links, 1, DETAIL_LIMIT)
    /\ Assembled => Len(data[1].alerts) <= DETAIL_LIMIT

\* C7 witness: a feed of more than DETAIL_LIMIT links gave DETAIL_LIMIT alerts.
C7_Witness ==
    /\ Assembled
    /\ Len(links) > DETAIL_LIMIT
    /\ Len(data[1].alerts) = DETAIL_LIMIT

\* The language code of an info block as the document gives it.
LangCode(info) ==
    IF info.language = None THEN <<>> ELSE Lower(Strip(info.language[1]))

\* The block the CAP language rule names: the first whose language code
\* starts with the preferred code, else the first block.
PreferredInfo(blocks, preferred) ==
    LET m == {i \in DOMAIN blocks : StartsWith(LangCode(blocks[i]), Lower(preferred))}
    IN  IF m # {} THEN blocks[Min(m)] ELSE blocks[1]

\* C8: for every document with an alert element and at least one info
\* block, namespaced or bare, _select_info_block returns the first block
\* whose language code matches the preferred language, else the first block.
C8_LanguageSelection ==
    (capOut.stage = "parsed" /\ capDoc.wellformed /\ capDoc.root # "other"
        /\ Len(capDoc.infos) > 0)
    => capOut.info = Some(PreferredInfo(capDoc.infos, alert_language))

\* Lemma for C8: the rule holds for every bare-tag document.
LanguageSelectionBare ==
    (capOut.stage = "parsed" /\ capDoc.wellformed /\ capDoc.root # "other"
        /\ Len(capDoc.infos) > 0 /\ ~capDoc.ns)
    => capOut.info = Some(PreferredInfo(capDoc.infos, alert_language))

\* The fixed severity table of the specification, on lowercased text.
TierOfText(t) ==
    IF t = EXTREME_ THEN "red"
    ELSE IF t = SEVERE_ THEN "orange"
    ELSE IF t = MODERATE_ \/ t = MINOR_ THEN "yellow"
    ELSE "unknown"

SeverityText(info) ==
    IF info.severity = None THEN <<>> ELSE Lower(Strip(info.severity[1]))

\* C9: for every parsed alert, namespaced or bare, severity_color is the
\* table image of the lowercased severity text of the selected info block,
\* and is one of red, orange, yellow, unknown.
C9_SeverityTierMapping ==
    (capOut.stage = "parsed" /\ capOut.alert # None) =>
        /\ capOut.alert[1].severity_color = TierOfText(SeverityText(capOut.info[1]))
        /\ capOut.alert[1].severity_color \in Tiers

\* Lemma for C9: the mapping holds for every bare-tag document, and the
\* tier is one of the four for every document.
SeverityTierBare ==
    (capOut.stage = "parsed" /\ capOut.alert # None) =>
        /\ ~capDoc.ns =>
              capOut.alert[1].severity_color = TierOfText(SeverityText(capOut.info[1]))
        /\ capOut.alert[1].severity_color \in Tiers

Rank(t) ==
    CASE t = "red" -> 3 [] t = "orange" -> 2 [] t = "yellow" -> 1
      [] t = "unknown" -> 0 [] OTHER -> 0 - 1

\* C10: highest_severity returns "none" exactly for the empty list; for a
\* non-empty list it returns a tier of the list that no tier of the list
\* outranks, the same for every order of the alerts; the
\* highest_alert_severity attribute is that value.
C10_HighestSeverity ==
    sevOut # None =>
        LET h == sevOut[1].highest
        IN  /\ h = "none" <=> sevIn = <<>>
            /\ sevIn # <<>> =>
                 /\ \E i \in DOMAIN sevIn : sevIn[i].severity_color = h
                 /\ \A i \in DOMAIN sevIn : Rank(sevIn[i].severity_color) <= Rank(h)
            /\ \A p \in Permutations(DOMAIN sevIn) :
                   highest_severity([i \in DOMAIN sevIn |-> sevIn[p[i]]]) = h
            /\ sevOut[1].attribute = h

\* C10 witness: the list yellow, red, unknown gave red.
C10_Witness ==
    /\ sevOut # None
    /\ Len(sevIn) = 3
    /\ sevIn[1].severity_color = "yellow"
    /\ sevIn[2].severity_color = "red"
    /\ sevIn[3].severity_color = "unknown"
    /\ sevOut[1].highest = "red"

\* The temperatures the hourly entries of `date` carry.
TempsOn(hourly, date) ==
    {hourly[i].temperature[1] :
        i \in {j \in DOMAIN hourly : hourly[j].datetime.date = date
                                      /\ hourly[j].temperature # None}}

HourlyDatesIn(hourly) == {hourly[i].datetime.date : i \in DOMAIN hourly}

\* C11: _aggregate_daily returns exactly one summary per distinct date of
\* the hourly entries, in strictly ascending date order, each stamped
\* midnight of its date; temperature is the maximum and templow the minimum
\* of the temperatures of that date (templow <= temperature), and both are
\* None for a date none of whose entries has a temperature.
C11_DailyAggregation ==
    dailyOut # None =>
        LET daily == dailyOut[1]
        IN  /\ Len(daily) = Cardinality(HourlyDatesIn(dailyIn))
            /\ {daily[i].datetime.date : i \in DOMAIN daily} = HourlyDatesIn(dailyIn)
            /\ \A i, j \in DOMAIN daily :
                   i < j => DateLess(daily[i].datetime.date, daily[j].datetime.date)
            /\ \A i \in DOMAIN daily :
                   LET T == TempsOn(dailyIn, daily[i].datetime.date)
                   IN  /\ daily[i].datetime.hour = 0
                       /\ T = {} => daily[i].temperature = None /\ daily[i].templow = None
                       /\ T # {} =>
                            /\ daily[i].temperature # None /\ daily[i].templow # None
                            /\ daily[i].temperature[1] \in T
                            /\ daily[i].templow[1] \in T
                            /\ \A t \in T : daily[i].templow[1] <= t
                                             /\ t <= daily[i].temperature[1]
                            /\ daily[i].templow[1] <= daily[i].temperature[1]

\* C11 witness: three entries, the later date first, gave two summaries in
\* date order, the first with distinct maximum and minimum.
C11_Witness ==
    /\ dailyOut # None
    /\ Len(dailyIn) = 3
    /\ dailyIn[1].datetime.date = <<12, 1>>
    /\ dailyIn[2].datetime.date = <<2, 15>>
    /\ Len(dailyOut[1]) = 2
    /\ dailyOut[1][1].datetime.date = <<2, 15>>
    /\ dailyOut[1][1].temperature # None
    /\ dailyOut[1][1].templow # None
    /\ dailyOut[1][1].templow[1] < dailyOut[1][1].temperature[1]

\* The hourly entries of `date` that carry a value under `key`.
SampleIdx(hourly, date, key) ==
    {i \in DOMAIN hourly : /\ hourly[i].datetime.date = date
                           /\ key \in DOMAIN hourly[i]
                           /\ hourly[i][key] # None}

RECURSIVE SumIdx(_, _, _)
SumIdx(hourly, key, I) ==
    IF I = {} THEN 0
    ELSE LET i == CHOOSE j \in I : TRUE
         IN  hourly[i][key][1] + SumIdx(hourly, key, I \ {i})

\* x is the value with one decimal nearest to num / den (numbers in hundredths).
NearestTenth(x, num, den) ==
    /\ x % 10 = 0
    /\ 2 * (x * den - num) <= 10 * den
    /\ 2 * (num - x * den) <= 10 * den

\* In summary d: key present iff the date has a sample of it.
PresentIffSampled(d, key) ==
    (key \in DOMAIN d) <=> (SampleIdx(dailyIn, d.datetime.date, key) # {})

\* C12 as stated: wind_speed is present iff the date has a wind speed and
\* equals the mean of the date's wind speeds; wind_gust is present iff the
\* date has a gust and equals their maximum; precipitation is present iff
\* the date has a precipitation value and equals their sum.
C12_DailyOptionalFields ==
    dailyOut # None =>
        \A k \in DOMAIN dailyOut[1] :
            LET d == dailyOut[1][k]
                W == SampleIdx(dailyIn, d.datetime.date, "wind_speed")
                G == SampleIdx(dailyIn, d.datetime.date, "wind_gust")
                P == SampleIdx(dailyIn, d.datetime.date, "precipitation")
            IN  /\ PresentIffSampled(d, "wind_speed")
                /\ PresentIffSampled(d, "wind_gust")
                /\ PresentIffSampled(d, "precipitation")
                /\ W # {} => d.wind_speed * Cardinality(W) = SumIdx(dailyIn, "wind_speed", W)
                /\ G # {} => d.wind_gust = Max({dailyIn[i].wind_gust[1] : i \in G})
                /\ P # {} => d.precipitation = SumIdx(dailyIn, "precipitation", P)

\* C12 amended: as C12, with wind_speed the mean rounded to one decimal and
\* precipitation the sum rounded to one decimal.
C12_DailyOptionalFieldsRounded ==
    dailyOut # None =>
        \A k \in DOMAIN dailyOut[1] :
            LET d == dailyOut[1][k]
                W == SampleIdx(dailyIn, d.datetime.date, "wind_speed")
                G == SampleIdx(dailyIn, d.datetime.date, "wind_gust")
                P == SampleIdx(dailyIn, d.datetime.date, "precipitation")
            IN  /\ PresentIffSampled(d, "wind_speed")
                /\ PresentIffSampled(d, "wind_gust")
                /\ PresentIffSampled(d, "precipitation")
                /\ W # {} => NearestTenth(d.wind_speed,
                                          SumIdx(dailyIn, "wind_speed", W), Cardinality(W))
                /\ G # {} => d.wind_gust = Max({dailyIn[i].wind_gust[1] : i \in G})
                /\ P # {} => NearestTenth(d.precipitation,
                                          SumIdx(dailyIn, "precipitation", P), 1)

\* C12 witness: one date whose wind speeds 4.00 and 6.10 gave a rounded
\* mean, next to a date without wind speed or precipitation samples whose
\* summary has neither key.
C12_Witness ==
    /\ dailyOut # None
    /\ Len(dailyIn) = 3
    /\ \E k \in DOMAIN dailyOut[1] :
           LET d == dailyOut[1][k]
               W == SampleIdx(dailyIn, d.datetime.date, "wind_speed")
           IN  /\ Cardinality(W) = 2
               /\ SumIdx(dailyIn, "wind_speed", W) = 1010
               /\ d.wind_speed \in {500, 510}
    /\ \E k \in DOMAIN dailyOut[1] :
           /\ "wind_speed" \notin DOMAIN dailyOut[1][k]
           /\ "precipitation" \notin DOMAIN dailyOut[1][k]

\* C14: _wind_chill returns None when the temperature or the wind speed is
\* absent, returns the temperature unchanged when temperature > 10 or
\* wind speed x 3.6 < 4.8, and a result other than the temperature (the
\* formula's) arises only when temperature <= 10 and wind speed x 3.6 >= 4.8.
C14_WindChillDomain ==
    chillOut # None =>
        LET t == chillIn.temp_c
            w == chillIn.wind_mps
            r == chillOut[1]
        IN  /\ (t = None \/ w = None) <=> r = None
            /\ (t # None /\ w # None /\ (t[1] > 1000 \/ w[1] * 36 < 4800)) => r = t
            /\ (r # None /\ r # t) => (t[1] <= 1000 /\ w[1] * 36 >= 4800)

\* C14 witness: 10.05 degrees at 10 m/s came back unchanged, as did 4
\* degrees at 1.33 m/s (4.788 km/h).
C14_Witness ==
    /\ chillOut # None
    /\ \/ chillIn = [temp_c |-> Some(1005), wind_mps |-> Some(1000)]
       \/ chillIn = [temp_c |-> Some(400), wind_mps |-> Some(133)]
    /\ chillOut[1] = chillIn.temp_c

\* The formula's value at -5 degrees, 10 m/s is -13.7, and at 10.0 degrees,
\* 1.34 m/s (4.824 km/h) the formula is applied (9.8).
WindChillValues ==
    /\ _wind_chill(Some(0 - 500), Some(1000)) = Some(0 - 1370)
    /\ _wind_chill(Some(1000), Some(134)) = Some(980)

\* The overlay ran: the forecast was parsed, the result is there, and the
\* observation fetch returned a well-formed body with a <station>.
Overlaid ==
    /\ wxOut # None
    /\ wxIn.observation_xml.kind = "returned"
    /\ wxIn.observation_xml.value.wellformed
    /\ wxIn.observation_xml.value.station

\* The observation supplies a number in the child `num`.
Supplies(num) == num # None /\ num[1].float

\* The observation supplies text in the child `child`: some character of it
\* is not a blank.
SuppliesText(child) == child # None /\ \E i \in DOMAIN child[1] : child[1][i] # " "

\* Key `key` of the snapshot was overlaid from the numeric child `num`.
NumericOverlaid(before, after, key, num) ==
    IF Supplies(num) THEN after[key] = Some(num[1].v) ELSE after[key] = before[key]

\* C13: the overlay leaves forecast_hourly, forecast_daily, alerts,
\* station_id and station_name (and forecast_time) alone; every field the
\* observation supplies a value for holds that value afterwards; every
\* current-conditions field it supplies no parsable value for keeps the
\* forecast's value; without an overlay the snapshot is the forecast's.
C13_OverlayFrame ==
    wxOut # None =>
        LET before == wxData[1].value
            after == wxOut[1]
            st == wxIn.observation_xml.value
        IN  IF ~Overlaid THEN after = before
            ELSE /\ \A key \in {"forecast_hourly", "forecast_daily", "alerts",
                                 "station_id", "station_name", "forecast_time"} :
                        after[key] = before[key]
                 /\ DOMAIN after \subseteq DOMAIN before \cup {"observation_time"}
                 /\ NumericOverlaid(before, after, "temperature", st.T)
                 /\ NumericOverlaid(before, after, "wind_speed", st.F)
                 /\ NumericOverlaid(before, after, "wind_gust", st.FG)
                 /\ NumericOverlaid(before, after, "precipitation", st.R)
                 /\ IF SuppliesText(st.D)
                    THEN after.wind_direction = Some(Strip(st.D[1]))
                    ELSE /\ after.wind_direction = before.wind_direction
                         /\ after.wind_bearing = before.wind_bearing
                 /\ IF SuppliesText(st.W)
                    THEN after.condition_text = Some(Strip(st.W[1]))
                    ELSE /\ after.condition_text = before.condition_text
                         /\ after.condition = before.condition
                 /\ IF st.time # None
                    THEN after.observation_time = st.time[1]
                    ELSE "observation_time" \notin DOMAIN after
                 /\ (~Supplies(st.T) /\ ~Supplies(st.F)) =>
                        after.feels_like = before.feels_like

\* An overlay of a forecast with hourly entries that replaced the
\* temperature and the wind direction and kept the forecast's wind speed,
\* the observation's <F> being absent and its <T> present.
C13_Witness ==
    /\ Overlaid
    /\ Supplies(wxIn.observation_xml.value.T)
    /\ ~Supplies(wxIn.observation_xml.value.F)
    /\ SuppliesText(wxIn.observation_xml.value.D)
    /\ wxOut[1].temperature # wxData[1].value.temperature
    /\ wxOut[1].wind_direction # wxData[1].value.wind_direction
    /\ wxOut[1].wind_speed = wxData[1].value.wind_speed
    /\ wxOut[1].wind_speed # None
    /\ Len(wxOut[1].forecast_hourly) >= 2

\* C18: in every data dict _fetch_weather returns - overlay skipped or
\* applied, whatever it supplied - feels_like is _wind_chill of the dict's
\* final temperature and final wind speed.
C18_FeelsLikeConsistent ==
    wxOut # None =>
        wxOut[1].feels_like = _wind_chill(wxOut[1].temperature, wxOut[1].wind_speed)

\* An overlay that supplied the temperature and not the wind speed, after
\* which feels_like is a wind chill: it differs from the forecast's and from
\* the temperature.
C18_Witness ==
    /\ Overlaid
    /\ Supplies(wxIn.observation_xml.value.T)
    /\ ~Supplies(wxIn.observation_xml.value.F)
    /\ wxOut[1].feels_like # None
    /\ wxOut[1].feels_like # wxData[1].value.feels_like
    /\ wxOut[1].feels_like # wxOut[1].temperature

\* The bearing the compass table gives the label: none for an absent label
\* and for one outside the table.
BearingOfLabel(label) ==
    IF label # None /\ Upper(label[1]) \in DOMAIN WIND_DIRECTION_MAP
    THEN Some(WIND_DIRECTION_MAP[Upper(label[1])])
    ELSE None

\* C19: in every data dict _fetch_weather returns, wind_bearing is the
\* compass-table bearing of the dict's wind_direction, and absent when the
\* label is absent or not in the table.
C19_BearingFollowsDirection ==
    wxOut # None => wxOut[1].wind_bearing = BearingOfLabel(wxOut[1].wind_direction)

\* The part of C19 that holds: the bearing follows the label whenever the
\* overlay did not replace the direction, or replaced it with a label of
\* the table.
BearingFollowsMappedDirection ==
    (/\ wxOut # None
     /\ (Overlaid /\ SuppliesText(wxIn.observation_xml.value.D))
            => BearingOfLabel(wxOut[1].wind_direction) # None)
        => wxOut[1].wind_bearing = BearingOfLabel(wxOut[1].wind_direction)

\* The first hourly entry of the returned dict is made from forecasts[0],
\* the entry the current conditions were read from.
FirstHourlyIsCurrent ==
    LET current == wxIn.forecast_xml.value.forecasts[1]
        first == wxOut[1].forecast_hourly[1]
    IN  /\ current.ftime # None /\ current.ftime[1].parsable
        /\ first.datetime = [date |-> current.ftime[1].date, hour |-> current.ftime[1].hour]
        /\ first.temperature = wxData[1].value.temperature
        /\ first.wind_speed = wxData[1].value.wind_speed

\* C20: every data dict _fetch_weather returns has at least one hourly
\* entry, and its first hourly entry is the forecast entry of index 0; a
\* feed without an entry with a parsable timestamp fails instead.
C20_HourlyNeverEmpty ==
    wxOut # None =>
        /\ Len(wxOut[1].forecast_hourly) >= 1
        /\ FirstHourlyIsCurrent

\* The part of C20 that holds: forecast_hourly is a list with one entry
\* for each forecast entry with a parsable timestamp, and when forecasts[0]
\* has one, it is the first hourly entry.
HourlyOfUsableEntries ==
    wxOut # None =>
        LET forecasts == wxIn.forecast_xml.value.forecasts
            usable == {i \in DOMAIN forecasts :
                         forecasts[i].ftime # None /\ forecasts[i].ftime[1].parsable}
        IN  /\ Len(forecasts) >= 1
            /\ DOMAIN wxOut[1].forecast_hourly = 1..Cardinality(usable)
            /\ 1 \in usable => FirstHourlyIsCurrent

\* The three fixed endpoints of a refresh.
Endpoints == {"forecast", "observation", "alerts"}

\* A fetch that has an outcome: it returned, raised or was cancelled.
Over(t) == t.kind \in {"returned", "raised", "cancelled"}

\* Each endpoint was requested at most once; there is one detail request
\* for each of the first DETAIL_LIMIT link positions and no other.
RequestedOnce ==
    /\ \A e \in Endpoints : Count(requests, e) <= 1
    /\ Len(detailReqs) <= DETAIL_LIMIT
    /\ Len(detailReqs) <= Len(links)
    /\ Len(tasks) = Len(detailReqs)
    /\ \A i \in DOMAIN detailReqs : detailReqs[i] = links[i]

\* A step re-issues nothing: a fetch with an outcome is not in flight
\* again, the requests made stay the requests made.
NoReissue ==
    /\ Over(fcTask) => fcTask'.kind # "pending"
    /\ Over(obsTask) => obsTask'.kind # "pending"
    /\ Over(idxReq) => idxReq'.kind # "pending"
    /\ \A i \in DOMAIN tasks :
          Over(tasks[i]) => i \in DOMAIN tasks' /\ tasks'[i].kind # "pending"
    /\ Len(requests) <= Len(requests')
    /\ SubSeq(requests', 1, Len(requests)) = requests
    /\ detailReqs # <<>> => detailReqs' = detailReqs

\* C15: within one refresh the forecast, observation and alert index
\* endpoints are each requested at most once, each of the first 10 link
\* positions is requested at most once, and no fetch that failed or timed
\* out is issued again.
C15_NoRetry ==
    /\ []RequestedOnce
    /\ [][NoReissue]_vars

\* A finished refresh over a feed of more than 10 links in which a detail
\* fetch failed: three endpoint requests and 10 detail requests were made.
C15_Witness ==
    /\ pc = "done"
    /\ Len(requests) = 3
    /\ Len(links) > DETAIL_LIMIT
    /\ Len(detailReqs) = DETAIL_LIMIT
    /\ \E i \in DOMAIN tasks : tasks[i].kind = "raised"

\* Both fetches of phase 1 start in one step, and while phase 1 waits
\* neither is unstarted.
StartedTogether ==
    /\ (fcTask = NotStarted) <=> (obsTask = NotStarted)
    /\ pc = "phase1" => fcTask # NotStarted /\ obsTask # NotStarted

\* Phase 1 goes on past its gather - to the snapshot, or to the failure of
\* the forecast - only from a state in which both fetches have returned or
\* raised; before that only the deadline ends it.  An overlay is applied
\* only from an observation fetch that returned.
JoinAfterBothSettled ==
    /\ (pc = "phase1" /\ pc' # "phase1") =>
          \/ /\ fcTask.kind \in {"returned", "raised"}
             /\ obsTask.kind \in {"returned", "raised"}
          \/ /\ clock >= PHASE_TIMEOUT
             /\ pc' = "failed"
             /\ data' = None
    /\ (data = None /\ data' # None) =>
          /\ fcTask.kind = "returned"
          /\ obsTask.kind \in {"returned", "raised"}
          /\ (\A parsed \in _parse_forecast(fcTask.value) :
                  parsed.kind = "returned" => data'[1] # parsed.value)
                => obsTask.kind = "returned"

\* C16: the two fetches of phase 1 are started together, neither waiting
\* for the other, and forecast parsing and the overlay run only after both
\* have settled; no overlay is applied from a fetch still in flight.
C16_Phase1Join ==
    /\ []StartedTogether
    /\ [][JoinAfterBothSettled]_vars

\* Phase 1 has produced a snapshot with the observation overlaid.
C16_Witness ==
    /\ pc = "phase2_index"
    /\ data # None
    /\ "observation_time" \in DOMAIN data[1]
    /\ data[1].temperature = Some(700)

\* An alert request exists only with the snapshot of phase 1, and a failed
\* refresh has made none.
AlertsAfterSnapshot ==
    /\ (idxReq # NotStarted \/ Count(requests, "alerts") > 0 \/ detailReqs # <<>>)
          => data # None
    /\ pc = "failed" =>
          /\ data = None
          /\ idxReq = NotStarted
          /\ Count(requests, "alerts") = 0
          /\ detailReqs = <<>>

\* A fetch of phase 2 is cancelled in this step.
Phase2Cancels ==
    \/ idxReq = Pending /\ idxReq' = Cancelled
    \/ \E i \in DOMAIN tasks : tasks[i] = Pending /\ tasks'[i] = Cancelled

\* Phase 2 starts with the snapshot and a deadline of its own, and its
\* deadline cancels only after PHASE_TIMEOUT seconds of phase 2 and returns
\* the snapshot of phase 1 with every field but alerts as phase 1 left it.
OwnDeadline ==
    /\ (pc = "phase1" /\ pc' \in Phase2) => clock' = 0 /\ data' # None
    /\ (pc \in Phase2 /\ Phase2Cancels) =>
          /\ clock >= PHASE_TIMEOUT
          /\ pc' = "done"
          /\ returned'.kind = "returned"
          /\ DOMAIN returned'.value = DOMAIN data[1]
          /\ \A key \in DOMAIN data[1] \ {"alerts"} :
                returned'.value[key] = data[1][key]

\* C17: the alert index is requested only after phase 1 produced the
\* snapshot, a refresh whose phase 1 fails requests no alerts, phase 2 has
\* a deadline of its own that starts with phase 2, and its expiry leaves
\* the result of phase 1 valid.
C17_PhaseOrdering ==
    /\ []AlertsAfterSnapshot
    /\ [][OwnDeadline]_vars

\* A refresh returned after the deadline of phase 2 cancelled the index
\* request.
C17_Witness ==
    /\ pc = "done"
    /\ idxReq = Cancelled
    /\ clock >= PHASE_TIMEOUT
    /\ returned.kind = "returned"
    /\ returned.value.temperature # None

\* The hourly entries of `date`.
OnDate(hourly, date) == {i \in DOMAIN hourly : hourly[i].datetime.date = date}

\* The condition codes of the entries of `date` that no other code of that
\* date outnumbers.
MaxCountCodes(hourly, date) ==
    LET n(c) == Cardinality({i \in OnDate(hourly, date) : hourly[i].condition = c})
        codes == {hourly[i].condition : i \in OnDate(hourly, date)}
    IN  {c \in codes : \A d \in codes : n(d) <= n(c)}

\* Of those codes, the one the hourly sequence has first.
FirstEncountered(hourly, date) ==
    hourly[Min({i \in OnDate(hourly, date) :
                  hourly[i].condition \in MaxCountCodes(hourly, date)})].condition

\* C21: each daily summary's condition is a code of maximal count among the
\* hourly entries of its date, and among several such codes it is the one
\* first encountered in the hourly sequence, so that the hourly sequence
\* determines it.
C21_ModalConditionFirstEncountered ==
    dailyOut # None =>
        \A i \in DOMAIN dailyOut[1] :
            dailyOut[1][i].condition =
                Some(FirstEncountered(dailyIn, dailyOut[1][i].datetime.date))

\* The part of C21 that holds: the condition of a daily summary is a code
\* of maximal count among the hourly entries of its date.
ModalConditionIsMaximal ==
    dailyOut # None =>
        \A i \in DOMAIN dailyOut[1] :
            /\ dailyOut[1][i].condition # None
            /\ dailyOut[1][i].condition[1]
                  \in MaxCountCodes(dailyIn, dailyOut[1][i].datetime.date)

====
